---- MODULE Spec2Model ----
(***************************************************************************)
(* The provider-side invoice tracker (session/pingpong/invoice_tracker.go) *)
(* as a state machine.  The session loop is one sequential process; every *)
(* call it makes to a collaborator is one step, so that the order of the  *)
(* calls and the state between them can be stated.  Stop is a second      *)
(* process that may run at any time.  The collaborators (peer transport,  *)
(* accountant, stores, chain helper, time tracker, consumer) answer       *)
(* nondeterministically.                                                   *)
(***************************************************************************)
EXTENDS Integers, Naturals, Sequences, FiniteSets, TLC

(* ------------------------------ bounds -------------------------------- *)

\* largest promise amount the consumer puts in an exchange message
MaxPromiseAmount == 1
\* how many times Stop may be called in one behaviour
MaxStopCalls == 2
\* the bytes of an R in the model (generateR makes 32)
RLen == 2
\* paymentInfo.GetPrice().Amount, the configured price per minute
PaymentPrice == 60
\* maxAllowedAccountantFee, the configured limit
MaxAllowedAccountantFee == 1

\* the values timeTracker.Elapsed() may return, in milliseconds.  A round
\* begins after a wait, so each round reads a later value than the round
\* before it: the session has as many rounds as there are samples.
ElapsedSamples == {1300, 5000, 6000}
\* the configured charge periods, in milliseconds: half a second, one hour
ChargePeriods == {500, 3600000}
\* the configured maxAccountantFailureCount values
AccountantFailureLimits == {0, 1}
\* the configured maxRRecoveryLength values
RRecoveryLengths == {1}
\* the fee fees.Fee that FetchSettleFees may report
SettleFees == {3}

(* --------------------------- program constants ------------------------ *)

\* time.Second, time.Minute and chargePeriodLeeway = 2 * time.Hour, in ms
Second == 1000
Minute == 60000
chargePeriodLeeway == 7200000

(* --------------------- byte strings, hex and hashing ------------------ *)

HexDigits == <<"0", "1", "2", "3", "4", "5", "6", "7",
               "8", "9", "a", "b", "c", "d", "e", "f">>

\* hex.EncodeToString: two lowercase digits per byte
RECURSIVE EncodeToString(_)
EncodeToString(b) ==
    IF b = <<>> THEN <<>>
    ELSE <<HexDigits[(Head(b) \div 16) + 1], HexDigits[(Head(b) % 16) + 1]>>
         \o EncodeToString(Tail(b))

HexValue(c) == CHOOSE v \in 0..15 : HexDigits[v + 1] = c

\* hex.DecodeString: the bytes of a string of hex digits (either case is
\* a digit in the code; the model's strings are lowercase), and an error
\* when the string has odd length or holds something that is no hex digit
RECURSIVE DecodeString(_)
DecodeString(s) ==
    IF s = <<>> THEN [err |-> FALSE, bytes |-> <<>>]
    ELSE IF Len(s) < 2 THEN [err |-> TRUE, bytes |-> <<>>]
    ELSE IF \E i \in 1..2 : ~(\E v \in 1..16 : HexDigits[v] = s[i])
         THEN [err |-> TRUE, bytes |-> <<>>]
    ELSE LET rest == DecodeString(SubSeq(s, 3, Len(s)))
         IN  IF rest.err THEN rest
             ELSE [err |-> FALSE,
                   bytes |-> <<HexValue(s[1]) * 16 + HexValue(s[2])>> \o rest.bytes]

\* strings.TrimPrefix(s, "0x")
TrimPrefix0x(s) ==
    IF Len(s) >= 2 /\ s[1] = "0" /\ s[2] = "x" THEN SubSeq(s, 3, Len(s)) ELSE s

\* the 32-byte hash H of the payments library: a black box; an injective
\* stand-in (every byte complemented) keeps distinct preimages distinct
Keccak256(r) == [i \in 1..Len(r) |-> 255 - r[i]]

\* crypto.CreateInvoice(agreementID, amount, fee, r): hashlock = H(r), as a
\* lowercase hex string with the 0x prefix; the caller sets the provider
CreateInvoice(agreementID, amount, fee, r) ==
    [agreementID |-> agreementID, amount |-> amount, transactorFee |-> fee,
     hashlock |-> <<"0", "x">> \o EncodeToString(Keccak256(r)),
     provider |-> "none"]

\* the n-th value rand.Read delivers: bytes no earlier call delivered
RandRead(n) == [i \in 1..RLen |-> IF i = 1 THEN n ELSE 0]

\* the zero value of crypto.ExchangeMessage
ZeroExchangeMessage ==
    [valid |-> FALSE, signer |-> "none", amount |-> 0, hashlock |-> <<>>,
     channelID |-> <<>>, agreementTotal |-> 0]

\* the consumer's channel address (20 bytes in the code) and another one
ChannelAddress == <<171, 205>>
OtherAddress == <<18, 52>>
\* common.Address.Hex(): "0x" and the hex digits of the address
AddressHex(a) == <<"0", "x">> \o EncodeToString(a)

(* ------------------------------- state -------------------------------- *)

VARIABLES
    \* configuration, fixed at construction (InvoiceTrackerDeps)
    chargePeriod, maxAccountantFailureCount, maxRRecoveryLength,
    maxNotReceivedExchangeMessages,
    \* the session loop: where it is, what Start returned ("running" until
    \* it returns, then "nil" or the error), the error receive returned
    pc, result, receiveErr,
    \* the stop channel (closed or not), the calls of Stop, the closes
    stop, stopCalls, stopCloses,
    \* the firstSend timer: not yet received from; its second has passed
    firstSendPending, secondPassed, firstIteration,
    \* fields of the tracker
    transactorFee, lastInvoice, lastExchangeMessage,
    notReceivedExchangeMessageCount, accountantFailureCount,
    \* locals of receiveExchangeMessageOrTimeout and initiateRRecovery
    pm, accountantPromise, promise, recoveryI,
    \* the collaborators' state: the invoice store's last invoice (a
    \* sequence of at most one), its R by agreement id, the id it gives
    \* next, the promise store's record (a sequence of at most one), the
    \* time tracker's last answer, how many values rand.Read delivered
    invoiceStorage, rStorage, nextAgreementID, promiseStorage, elapsed,
    randCount,
    \* what the session did: the calls of the current phase (Start's
    \* preconditions, then each round), the number of invoices sent and
    \* stored, the R's of the successful RevealR calls and those among
    \* them revealed more than once, the events published, the rounds begun
    calls, sent, stored, revealed, revealedAgain, published, rounds,
    \* history of the rounds: the hashlock of the invoice before the
    \* last, the amount of the invoice sent before the last sent, the
    \* promise records stored by this session, the R's stored as revealed,
    \* the timeouts in a row
    prevHashlock, prevSentAmount, promisesStored, latched, timeoutsInARow

cfgVars == <<chargePeriod, maxAccountantFailureCount, maxRRecoveryLength,
             maxNotReceivedExchangeMessages>>
stopVars == <<stop, stopCalls, stopCloses>>
timerVars == <<firstSendPending, secondPassed, firstIteration>>
trackerVars == <<transactorFee, lastInvoice, lastExchangeMessage,
                 notReceivedExchangeMessageCount, accountantFailureCount>>
localVars == <<pm, accountantPromise, promise, recoveryI>>
storeVars == <<invoiceStorage, rStorage, nextAgreementID, promiseStorage>>
envVars == <<elapsed, randCount>>
logVars == <<sent, stored, revealed, revealedAgain, published, rounds>>
histVars == <<prevHashlock, prevSentAmount, promisesStored, latched,
              timeoutsInARow>>

vars == <<cfgVars, pc, result, receiveErr, stopVars, timerVars, trackerVars,
          localVars, storeVars, envVars, calls, logVars, histVars>>

(* --------------------------- construction ----------------------------- *)

\* math.Round of the quotient of two positive integers: half rounds up
RoundDiv(a, b) == (2 * a + b) \div (2 * b)

calculateMaxNotReceivedExchangeMessageCount(chargeLeeway, period) ==
    RoundDiv(chargeLeeway, period)

\* the zero value of lastInvoice
ZeroInvoice ==
    [invoice |-> [agreementID |-> 0, amount |-> 0, transactorFee |-> 0,
                  hashlock |-> <<>>, provider |-> "none"],
     r |-> <<>>]

\* what an earlier session of the provider left in the stores: the R of
\* its last invoice under its agreement id 1, and the promise of its last
\* round, not revealed
PriorR == RandRead(0)
PriorPromise ==
    [promise |-> [amount |-> 0,
                  hashlock |-> Keccak256(PriorR)],
     r |-> EncodeToString(PriorR), revealed |-> FALSE, agreementID |-> 1]

\* the state NewInvoiceTracker returns for a charge period among periods,
\* with stores that are empty (the provider's first session) or hold what
\* an earlier session left
InitWith(periods) ==
    /\ chargePeriod \in periods
    /\ maxAccountantFailureCount \in AccountantFailureLimits
    /\ maxRRecoveryLength \in RRecoveryLengths
    /\ maxNotReceivedExchangeMessages =
           calculateMaxNotReceivedExchangeMessageCount(chargePeriodLeeway,
                                                       chargePeriod)
    /\ pc = "Start" /\ result = "running" /\ receiveErr = "nil"
    /\ stop = FALSE /\ stopCalls = 0 /\ stopCloses = 0
    /\ firstSendPending = FALSE /\ secondPassed = FALSE
    /\ firstIteration = TRUE
    /\ transactorFee = 0
    /\ lastInvoice = ZeroInvoice
    /\ lastExchangeMessage = ZeroExchangeMessage
    /\ notReceivedExchangeMessageCount = 0
    /\ accountantFailureCount = 0
    /\ pm = ZeroExchangeMessage /\ accountantPromise = <<>>
    /\ promise = <<>> /\ recoveryI = 0
    /\ invoiceStorage = <<>>
    /\ \E prior \in BOOLEAN :
          IF prior
          THEN /\ rStorage = [id \in 1..2 |->
                                 IF id = 1 THEN EncodeToString(PriorR)
                                 ELSE <<>>]
               /\ nextAgreementID = 2
               /\ promiseStorage = <<PriorPromise>>
          ELSE /\ rStorage = [id \in 1..2 |-> <<>>]
               /\ nextAgreementID = 1
               /\ promiseStorage = <<>>
    /\ elapsed = 0 /\ randCount = 0
    /\ calls = <<>> /\ sent = 0 /\ stored = 0
    /\ revealed = {} /\ revealedAgain = {}
    /\ published = 0 /\ rounds = 0
    /\ prevHashlock = <<>> /\ prevSentAmount = 0 /\ promisesStored = 0
    /\ latched = {}
    /\ timeoutsInARow = 0

Init == InitWith(ChargePeriods)

\* Start returns r
Return(r) == pc' = "Done" /\ result' = r

(* ------------------------ Start: preconditions ------------------------ *)

\* Start begins: timeTracker.StartTracking()
StartTracking ==
    /\ pc = "Start"
    /\ pc' = "IsRegistered"
    /\ calls' = Append(calls, "StartTracking")
    /\ UNCHANGED <<cfgVars, result, receiveErr, stopVars, timerVars,
                   trackerVars, localVars, storeVars, envVars, logVars,
                   histVars>>

\* a faulty variant of IsRegistered: the fees are fetched before the answer
\* is looked at
IsRegisteredLate ==
    /\ pc = "IsRegistered"
    /\ \E answer \in {"err", "false", "true"} :
          CASE answer = "err" ->
                 /\ Return("could not check customer identity registration status")
                 /\ calls' = Append(calls, "IsRegistered")
            [] answer = "false" ->
                 /\ Return("ErrConsumerNotRegistered")
                 /\ calls' = calls \o <<"IsRegistered", "FetchSettleFees">>
            [] OTHER ->
                 /\ pc' = "FetchSettleFees" /\ UNCHANGED result
                 /\ calls' = Append(calls, "IsRegistered")
    /\ UNCHANGED <<cfgVars, receiveErr, stopVars, timerVars, trackerVars,
                   localVars, storeVars, envVars, logVars, histVars>>

\* bcHelper.IsRegistered and the two returns that follow it
IsRegistered ==
    /\ pc = "IsRegistered"
    /\ calls' = Append(calls, "IsRegistered")
    /\ \E answer \in {"err", "false", "true"} :
          CASE answer = "err" ->
                 Return("could not check customer identity registration status")
            [] answer = "false" -> Return("ErrConsumerNotRegistered")
            [] OTHER -> pc' = "FetchSettleFees" /\ UNCHANGED result
    /\ UNCHANGED <<cfgVars, receiveErr, stopVars, timerVars, trackerVars,
                   localVars, storeVars, envVars, logVars, histVars>>

\* feeProvider.FetchSettleFees; the fee is kept in transactorFee
FetchSettleFees ==
    /\ pc = "FetchSettleFees"
    /\ calls' = Append(calls, "FetchSettleFees")
    /\ \/ /\ Return("could not fetch fees")
          /\ UNCHANGED transactorFee
       \/ /\ \E fee \in SettleFees : transactorFee' = fee
          /\ pc' = "GetAccountantFee"
          /\ UNCHANGED result
    /\ UNCHANGED <<cfgVars, receiveErr, stopVars, timerVars, lastInvoice,
                   lastExchangeMessage, notReceivedExchangeMessageCount,
                   accountantFailureCount, localVars, storeVars, envVars,
                   logVars, histVars>>

\* bcHelper.GetAccountantFee and the comparison with the allowed maximum
GetAccountantFee ==
    /\ pc = "GetAccountantFee"
    /\ calls' = Append(calls, "GetAccountantFee")
    /\ \/ Return("could not get accountants fee")
       \/ \E fee \in 0..(MaxAllowedAccountantFee + 1) :
             IF fee > MaxAllowedAccountantFee
             THEN Return("ErrAccountantFeeTooLarge")
             ELSE pc' = "generateInitialInvoice" /\ UNCHANGED result
    /\ UNCHANGED <<cfgVars, receiveErr, stopVars, timerVars, trackerVars,
                   localVars, storeVars, envVars, logVars, histVars>>

\* generateInitialInvoice: a new agreement id, a fresh R, and an invoice
\* kept in lastInvoice only; then the firstSend timer is created
generateInitialInvoice ==
    /\ pc = "generateInitialInvoice"
    /\ calls' = Append(calls, "GetNewAgreementID")
    /\ \/ /\ Return("could not generate initial invoice")
          /\ UNCHANGED <<lastInvoice, nextAgreementID, randCount,
                         firstSendPending>>
       \/ /\ randCount' = randCount + 1
          /\ nextAgreementID' = nextAgreementID + 1
          /\ lastInvoice' =
                 [invoice |-> CreateInvoice(nextAgreementID, PaymentPrice, 0,
                                            RandRead(randCount + 1)),
                  r |-> RandRead(randCount + 1)]
          /\ firstSendPending' = TRUE
          /\ pc' = "select"
          /\ UNCHANGED result
    /\ UNCHANGED <<cfgVars, receiveErr, stopVars, secondPassed,
                   firstIteration, transactorFee, lastExchangeMessage,
                   notReceivedExchangeMessageCount, accountantFailureCount,
                   localVars, invoiceStorage, rStorage, promiseStorage,
                   elapsed, logVars, histVars>>

(* --------------------------- Start: the loop -------------------------- *)

\* the values timeTracker.Elapsed() may return next
LaterSamples == {x \in ElapsedSamples : x > elapsed}

\* the firstSend timer can be received from at once
firstSendReady == firstSendPending /\ secondPassed

\* case <-firstSend.  The timer is ready when its second has passed;
\* otherwise the select waits for it, and it comes before the charge
\* period's timer when the charge period is a second or more (in a later
\* iteration the time the rounds took decides which comes first).  With the
\* stop channel closed the select does not wait.
SelectFirstSend ==
    /\ pc = "select"
    /\ LaterSamples # {}
    /\ firstSendPending
    /\ \/ secondPassed
       \/ ~stop /\ (chargePeriod >= Second \/ ~firstIteration)
    /\ firstSendPending' = FALSE
    /\ secondPassed' = TRUE
    /\ pc' = "sendInvoice"
    /\ UNCHANGED <<cfgVars, result, receiveErr, stopVars, firstIteration,
                   trackerVars, localVars, storeVars, envVars, calls,
                   logVars, histVars>>

\* a faulty variant of SelectStop: nil is returned without the stop channel
\* being closed
SelectStopUnguarded ==
    /\ pc = "select"
    /\ Return("nil")
    /\ UNCHANGED <<cfgVars, receiveErr, stopVars, timerVars, trackerVars,
                   localVars, storeVars, envVars, calls, logVars, histVars>>

\* case <-it.stop
SelectStop ==
    /\ pc = "select"
    /\ stop
    /\ Return("nil")
    /\ UNCHANGED <<cfgVars, receiveErr, stopVars, timerVars, trackerVars,
                   localVars, storeVars, envVars, calls, logVars, histVars>>

\* case <-time.After(it.chargePeriod): a timer made by this select, so it
\* is never ready at once, and it is not waited for when another case is
\* ready; a pending firstSend comes first when the charge period is longer
\* than a second
SelectChargePeriod ==
    /\ pc = "select"
    /\ LaterSamples # {}
    /\ ~stop
    /\ ~firstSendReady
    /\ firstSendPending => chargePeriod <= Second
    /\ secondPassed' = (secondPassed \/ chargePeriod >= Second)
    /\ pc' = "sendInvoice"
    /\ UNCHANGED <<cfgVars, result, receiveErr, stopVars, firstSendPending,
                   firstIteration, trackerVars, localVars, storeVars,
                   envVars, calls, logVars, histVars>>

(* ------------------ sendInvoiceExpectExchangeMessage ------------------ *)

\* uint64(math.Trunc(elapsed.Minutes() * float64(price))), elapsed in ms
ShouldBe(e) == (e * PaymentPrice) \div Minute

\* a faulty variant of Lenient: the amount is not reduced
LenientUnreduced(shouldBe) == shouldBe

\* uint64(math.Trunc(float64(shouldBe) * 0.8))
Lenient(shouldBe) == (shouldBe * 4) \div 5

\* the amount of the next invoice
InvoiceAmount(e) ==
    IF lastExchangeMessage.agreementTotal = 0
    THEN Lenient(ShouldBe(e))
    ELSE ShouldBe(e)

\* a faulty variant of generateR: the R of the last invoice again
generateRReused == lastInvoice.r

\* the R of the next invoice
generateR == RandRead(randCount + 1)

\* a faulty variant of SendInvoice: the invoice is stored, then sent
SendInvoiceStoringFirst ==
    /\ pc = "sendInvoice"
    /\ rounds' = rounds + 1
    /\ \E e \in LaterSamples :
          /\ elapsed' = e
          /\ randCount' = randCount + 1
          /\ LET invoice == CreateInvoice(lastInvoice.invoice.agreementID,
                                          InvoiceAmount(e), transactorFee,
                                          generateR)
             IN  /\ invoiceStorage' = <<invoice>>
                 /\ stored' = stored + 1
                 /\ calls' = <<"Elapsed", "Store", "Send">>
                 /\ \/ /\ Return("send failed")
                       /\ UNCHANGED <<lastInvoice, sent, prevHashlock,
                                      prevSentAmount>>
                    \/ /\ lastInvoice' = [invoice |-> invoice, r |-> generateR]
                       /\ sent' = sent + 1
                       /\ prevHashlock' = lastInvoice.invoice.hashlock
                       /\ prevSentAmount' = IF sent = 0 THEN 0
                                            ELSE lastInvoice.invoice.amount
                       /\ pc' = "receive"
                       /\ UNCHANGED result
    /\ UNCHANGED <<cfgVars, receiveErr, stopVars, timerVars, transactorFee,
                   lastExchangeMessage, notReceivedExchangeMessageCount,
                   accountantFailureCount, localVars, rStorage,
                   nextAgreementID, promiseStorage, revealed, revealedAgain,
                   published, promisesStored, latched, timeoutsInARow>>

\* a faulty variant of SendInvoice: lastInvoice is updated before the send
SendInvoiceUpdatingFirst ==
    /\ pc = "sendInvoice"
    /\ rounds' = rounds + 1
    /\ \E e \in LaterSamples :
          /\ elapsed' = e
          /\ randCount' = randCount + 1
          /\ lastInvoice' =
                 [invoice |-> CreateInvoice(lastInvoice.invoice.agreementID,
                                            InvoiceAmount(e), transactorFee,
                                            generateR),
                  r |-> generateR]
          /\ calls' = <<"Elapsed", "Send">>
          /\ \/ /\ Return("send failed")
                /\ UNCHANGED <<sent, prevHashlock, prevSentAmount>>
             \/ /\ sent' = sent + 1
                /\ prevHashlock' = lastInvoice.invoice.hashlock
                /\ prevSentAmount' = IF sent = 0 THEN 0
                                     ELSE lastInvoice.invoice.amount
                /\ pc' = "storeInvoice"
                /\ UNCHANGED result
    /\ UNCHANGED <<cfgVars, receiveErr, stopVars, timerVars, transactorFee,
                   lastExchangeMessage, notReceivedExchangeMessageCount,
                   accountantFailureCount, localVars, storeVars, stored,
                   revealed, revealedAgain, published, promisesStored,
                   latched, timeoutsInARow>>

\* the first part, up to the update of lastInvoice: the amount from the
\* elapsed time, a fresh R, the invoice, peerInvoiceSender.Send
SendInvoice ==
    /\ pc = "sendInvoice"
    /\ rounds' = rounds + 1
    /\ \E e \in LaterSamples :
          /\ elapsed' = e
          /\ randCount' = randCount + 1
          /\ LET invoice == CreateInvoice(lastInvoice.invoice.agreementID,
                                          InvoiceAmount(e), transactorFee,
                                          generateR)
             IN  \/ /\ Return("send failed")
                    /\ calls' = <<"Elapsed", "Send">>
                    /\ UNCHANGED <<lastInvoice, sent, prevHashlock,
                                   prevSentAmount>>
                 \/ /\ lastInvoice' = [invoice |-> invoice, r |-> generateR]
                    /\ sent' = sent + 1
                    /\ prevHashlock' = lastInvoice.invoice.hashlock
                    /\ prevSentAmount' = IF sent = 0 THEN 0
                                         ELSE lastInvoice.invoice.amount
                    /\ calls' = <<"Elapsed", "Send">>
                    /\ pc' = "storeInvoice"
                    /\ UNCHANGED result
    /\ UNCHANGED <<cfgVars, receiveErr, stopVars, timerVars, transactorFee,
                   lastExchangeMessage, notReceivedExchangeMessageCount,
                   accountantFailureCount, localVars, storeVars, stored,
                   revealed, revealedAgain, published, promisesStored,
                   latched, timeoutsInARow>>

\* invoiceStorage.Store of the invoice just sent
StoreInvoice ==
    /\ pc = "storeInvoice"
    /\ calls' = Append(calls, "Store")
    /\ \/ /\ Return("could not store invoice")
          /\ UNCHANGED <<invoiceStorage, stored>>
       \/ /\ invoiceStorage' = <<lastInvoice.invoice>>
          /\ stored' = stored + 1
          /\ pc' = "receive"
          /\ UNCHANGED result
    /\ UNCHANGED <<cfgVars, receiveErr, stopVars, timerVars, trackerVars,
                   localVars, rStorage, nextAgreementID, promiseStorage,
                   envVars, sent, revealed, revealedAgain, published, rounds,
                   histVars>>

(* ---------------------- validateExchangeMessage ----------------------- *)

\* the bytes of a hashlock string, as a consumer reads them off an invoice
HashlockBytes(h) == DecodeString(TrimPrefix0x(h)).bytes

\* the exchange messages the consumer may put on the channel: signed or
\* not, the promise signed by the peer, by another key, or with a signature
\* that does not recover; any amount; the hashlock of the last invoice or
\* of the one before it; the right channel or another; any agreement total
ExchangeMessages ==
    [valid : BOOLEAN,
     signer : {"peer", "other", "err"},
     amount : 0..MaxPromiseAmount,
     hashlock : {HashlockBytes(lastInvoice.invoice.hashlock),
                 HashlockBytes(prevHashlock)},
     channelID : {ChannelAddress, OtherAddress},
     agreementTotal : {0, 1}]

\* a faulty variant of validateExchangeMessage: the amount is not compared
validateWithoutAmount(em, addr) ==
    LET hashlock == DecodeString(TrimPrefix0x(lastInvoice.invoice.hashlock))
    IN  CASE ~em.valid -> "ErrExchangeValidationFailed"
          [] em.signer = "err" -> "could not recover promise signature"
          [] em.signer # "peer" -> "identity missmatch"
          [] hashlock.err -> "could not decode hashlock"
          [] hashlock.bytes # em.hashlock ->
                 "ErrConsumerPromiseValidationFailed: missmatching hashlock"
          [] addr = "err" -> "could not generate channel address"
          [] ChannelAddress # em.channelID ->
                 "ErrConsumerPromiseValidationFailed: invalid channel address"
          [] OTHER -> "nil"

\* a faulty variant of validateExchangeMessage: the hashlock is compared
\* before the amount
validateHashlockFirst(em, addr) ==
    LET hashlock == DecodeString(TrimPrefix0x(lastInvoice.invoice.hashlock))
        expectedChannel ==
            DecodeString(TrimPrefix0x(AddressHex(ChannelAddress)))
    IN  CASE ~em.valid -> "ErrExchangeValidationFailed"
          [] em.signer = "err" -> "could not recover promise signature"
          [] em.signer # "peer" -> "identity missmatch"
          [] hashlock.err -> "could not decode hashlock"
          [] hashlock.bytes # em.hashlock ->
                 "ErrConsumerPromiseValidationFailed: missmatching hashlock"
          [] em.amount < lastExchangeMessage.amount ->
                 "ErrConsumerPromiseValidationFailed: invalid amount"
          [] addr = "err" -> "could not generate channel address"
          [] expectedChannel.err -> "could not decode expected chanel"
          [] expectedChannel.bytes # em.channelID ->
                 "ErrConsumerPromiseValidationFailed: invalid channel address"
          [] OTHER -> "nil"

\* validateExchangeMessage(em): "nil" or the error; addr is the answer of
\* channelAddressCalculator.GetChannelAddress, an address or "err"
validateExchangeMessage(em, addr) ==
    LET hashlock == DecodeString(TrimPrefix0x(lastInvoice.invoice.hashlock))
        expectedChannel ==
            DecodeString(TrimPrefix0x(AddressHex(ChannelAddress)))
    IN  CASE ~em.valid -> "ErrExchangeValidationFailed"
          [] em.signer = "err" -> "could not recover promise signature"
          [] em.signer # "peer" -> "identity missmatch"
          [] em.amount < lastExchangeMessage.amount ->
                 "ErrConsumerPromiseValidationFailed: invalid amount"
          [] hashlock.err -> "could not decode hashlock"
          [] hashlock.bytes # em.hashlock ->
                 "ErrConsumerPromiseValidationFailed: missmatching hashlock"
          [] addr = "err" -> "could not generate channel address"
          [] expectedChannel.err -> "could not decode expected chanel"
          [] expectedChannel.bytes # em.channelID ->
                 "ErrConsumerPromiseValidationFailed: invalid channel address"
          [] OTHER -> "nil"

(* ------------------ receiveExchangeMessageOrTimeout ------------------- *)

\* receiveExchangeMessageOrTimeout returns e to sendInvoiceExpectExchangeMessage
ReceiveReturns(e) == receiveErr' = e /\ pc' = "handleReceive"

\* a faulty variant of ReceiveExchangeMessage: the message is kept before
\* it is validated
ReceiveExchangeMessageKeepingFirst ==
    /\ pc = "receive"
    /\ calls' = Append(calls, "validate")
    /\ \E em \in ExchangeMessages, addr \in {"ok", "err"} :
          LET err == validateExchangeMessage(em, addr)
          IN  /\ lastExchangeMessage' = em
              /\ IF err # "nil"
                 THEN /\ ReceiveReturns(err)
                      /\ UNCHANGED <<pm, timeoutsInARow>>
                 ELSE /\ pm' = em
                      /\ timeoutsInARow' = 0
                      /\ pc' = "getPromise"
                      /\ UNCHANGED receiveErr
    /\ UNCHANGED <<cfgVars, result, stopVars, timerVars, transactorFee,
                   lastInvoice, notReceivedExchangeMessageCount,
                   accountantFailureCount, accountantPromise, promise,
                   recoveryI, storeVars, envVars, logVars, prevHashlock,
                   prevSentAmount, promisesStored, latched>>

\* case pm := <-it.exchangeMessageChan, the validation, and the update of
\* lastExchangeMessage
ReceiveExchangeMessage ==
    /\ pc = "receive"
    /\ calls' = Append(calls, "validate")
    /\ \E em \in ExchangeMessages, addr \in {"ok", "err"} :
          LET err == validateExchangeMessage(em, addr)
          IN  IF err # "nil"
              THEN /\ ReceiveReturns(err)
                   /\ UNCHANGED <<lastExchangeMessage, pm, timeoutsInARow>>
              ELSE /\ lastExchangeMessage' = em
                   /\ pm' = em
                   /\ timeoutsInARow' = 0
                   /\ pc' = "getPromise"
                   /\ UNCHANGED receiveErr
    /\ UNCHANGED <<cfgVars, result, stopVars, timerVars, transactorFee,
                   lastInvoice, notReceivedExchangeMessageCount,
                   accountantFailureCount, accountantPromise, promise,
                   recoveryI, storeVars, envVars, logVars, prevHashlock,
                   prevSentAmount, promisesStored, latched>>

\* case <-time.After(it.exchangeMessageWaitTimeout): not waited for when
\* the stop channel is closed already
ReceiveTimeout ==
    /\ pc = "receive"
    /\ ~stop
    /\ calls' = Append(calls, "timeout")
    /\ timeoutsInARow' = timeoutsInARow + 1
    /\ ReceiveReturns("ErrExchangeWaitTimeout")
    /\ UNCHANGED <<cfgVars, result, stopVars, timerVars, trackerVars,
                   localVars, storeVars, envVars, logVars, prevHashlock,
                   prevSentAmount, promisesStored, latched>>

\* case <-it.stop
ReceiveStop ==
    /\ pc = "receive"
    /\ stop
    /\ calls' = Append(calls, "stop")
    /\ timeoutsInARow' = 0
    /\ ReceiveReturns("nil")
    /\ UNCHANGED <<cfgVars, result, stopVars, timerVars, trackerVars,
                   localVars, storeVars, envVars, logVars, prevHashlock,
                   prevSentAmount, promisesStored, latched>>

\* a faulty variant of GetPromise: the record found is not revealed
GetPromiseSkippingReveal ==
    /\ pc = "getPromise"
    /\ calls' = Append(calls, "PromiseGet")
    /\ \/ /\ ReceiveReturns("could not get accountant promise")
          /\ UNCHANGED accountantPromise
       \/ /\ accountantPromise' = promiseStorage
          /\ pc' = "storeR"
          /\ UNCHANGED receiveErr
    /\ UNCHANGED <<cfgVars, result, stopVars, timerVars, trackerVars, pm,
                   promise, recoveryI, storeVars, envVars, logVars,
                   histVars>>

\* accountantPromiseStorage.Get and the switch on its error
GetPromise ==
    /\ pc = "getPromise"
    /\ calls' = Append(calls, "PromiseGet")
    /\ \/ /\ ReceiveReturns("could not get accountant promise")
          /\ UNCHANGED accountantPromise
       \/ /\ accountantPromise' = promiseStorage
          /\ LET needsRevealing ==
                     promiseStorage # <<>> /\ ~promiseStorage[1].revealed
             IN  pc' = IF needsRevealing THEN "revealR" ELSE "storeR"
          /\ UNCHANGED receiveErr
    /\ UNCHANGED <<cfgVars, result, stopVars, timerVars, trackerVars, pm,
                   promise, recoveryI, storeVars, envVars, logVars,
                   histVars>>

\* a faulty variant of AccountantFailed: >= for >
AccountantFailedAtMax ==
    /\ accountantFailureCount' = accountantFailureCount + 1
    /\ IF accountantFailureCount + 1 >= maxAccountantFailureCount
       THEN ReceiveReturns("could not call accountant")
       ELSE ReceiveReturns("nil")

\* incrementAccountantFailureCount and the comparison with the maximum
\* that follows it in both places: the error is returned or ignored
AccountantFailed ==
    /\ accountantFailureCount' = accountantFailureCount + 1
    /\ IF accountantFailureCount + 1 > maxAccountantFailureCount
       THEN ReceiveReturns("could not call accountant")
       ELSE ReceiveReturns("nil")

\* the accountant accepted RevealR(r, ...): r is disclosed (once more)
Disclose(r) ==
    /\ revealed' = revealed \cup {r}
    /\ revealedAgain' = IF r \in revealed THEN revealedAgain \cup {r}
                        ELSE revealedAgain

\* a faulty variant of RevealR: an ignored failure goes on to StoreR
RevealRGoingOn ==
    /\ pc = "revealR"
    /\ calls' = Append(calls, "RevealR")
    /\ \/ /\ accountantFailureCount' = accountantFailureCount + 1
          /\ IF accountantFailureCount + 1 > maxAccountantFailureCount
             THEN ReceiveReturns("could not call accountant")
             ELSE pc' = "storeR" /\ UNCHANGED receiveErr
          /\ UNCHANGED <<revealed, revealedAgain>>
       \/ /\ accountantFailureCount' = 0
          /\ Disclose(accountantPromise[1].r)
          /\ pc' = "storeRevealed"
          /\ UNCHANGED receiveErr
    /\ UNCHANGED <<cfgVars, result, stopVars, timerVars, transactorFee,
                   lastInvoice, lastExchangeMessage,
                   notReceivedExchangeMessageCount, localVars, storeVars,
                   envVars, sent, stored, published, rounds, histVars>>

\* accountantCaller.RevealR of the stored promise's R
RevealR ==
    /\ pc = "revealR"
    /\ calls' = Append(calls, "RevealR")
    /\ \/ /\ AccountantFailed
          /\ UNCHANGED <<revealed, revealedAgain>>
       \/ /\ accountantFailureCount' = 0
          /\ Disclose(accountantPromise[1].r)
          /\ pc' = "storeRevealed"
          /\ UNCHANGED receiveErr
    /\ UNCHANGED <<cfgVars, result, stopVars, timerVars, transactorFee,
                   lastInvoice, lastExchangeMessage,
                   notReceivedExchangeMessageCount, localVars, storeVars,
                   envVars, sent, stored, published, rounds, histVars>>

\* a faulty variant of StoreRevealed: the record is stored as it was read
StoreRevealedUnchanged ==
    /\ pc = "storeRevealed"
    /\ calls' = Append(calls, "PromiseStore")
    /\ \/ /\ ReceiveReturns("could not store accountant promise")
          /\ UNCHANGED promiseStorage
       \/ /\ promiseStorage' = accountantPromise
          /\ pc' = "storeR"
          /\ UNCHANGED receiveErr
    /\ UNCHANGED <<cfgVars, result, stopVars, timerVars, trackerVars,
                   localVars, invoiceStorage, rStorage, nextAgreementID,
                   envVars, logVars, histVars>>

\* a faulty variant of StoreRevealed: the round returns after the store
StoreRevealedReturning ==
    /\ pc = "storeRevealed"
    /\ calls' = Append(calls, "PromiseStore")
    /\ accountantPromise' = <<[accountantPromise[1] EXCEPT !.revealed = TRUE]>>
    /\ \/ /\ ReceiveReturns("could not store accountant promise")
          /\ UNCHANGED <<promiseStorage, latched>>
       \/ /\ promiseStorage' = accountantPromise'
          /\ latched' = latched \cup {accountantPromise[1].r}
          /\ ReceiveReturns("nil")
    /\ UNCHANGED <<cfgVars, result, stopVars, timerVars, trackerVars, pm,
                   promise, recoveryI, invoiceStorage, rStorage,
                   nextAgreementID, envVars, logVars, prevHashlock,
                   prevSentAmount, promisesStored, timeoutsInARow>>

\* accountantPromise.Revealed = true and accountantPromiseStorage.Store
StoreRevealed ==
    /\ pc = "storeRevealed"
    /\ calls' = Append(calls, "PromiseStore")
    /\ accountantPromise' = <<[accountantPromise[1] EXCEPT !.revealed = TRUE]>>
    /\ \/ /\ ReceiveReturns("could not store accountant promise")
          /\ UNCHANGED <<promiseStorage, latched>>
       \/ /\ promiseStorage' = accountantPromise'
          /\ latched' = latched \cup {accountantPromise[1].r}
          /\ pc' = "storeR"
          /\ UNCHANGED receiveErr
    /\ UNCHANGED <<cfgVars, result, stopVars, timerVars, trackerVars, pm,
                   promise, recoveryI, invoiceStorage, rStorage,
                   nextAgreementID, envVars, logVars, prevHashlock,
                   prevSentAmount, promisesStored, timeoutsInARow>>

\* a faulty variant of StoreR: its error is not looked at
StoreRUnchecked ==
    /\ pc = "storeR"
    /\ calls' = Append(calls, "StoreR")
    /\ \/ UNCHANGED rStorage
       \/ rStorage' = [rStorage EXCEPT
              ![lastInvoice.invoice.agreementID] =
                  EncodeToString(lastInvoice.r)]
    /\ pc' = "requestPromise"
    /\ UNCHANGED <<cfgVars, result, receiveErr, stopVars, timerVars,
                   trackerVars, localVars, invoiceStorage, nextAgreementID,
                   promiseStorage, envVars, logVars, histVars>>

\* invoiceStorage.StoreR of the last invoice's R under its agreement id
StoreR ==
    /\ pc = "storeR"
    /\ calls' = Append(calls, "StoreR")
    /\ \/ /\ ReceiveReturns("could not store r")
          /\ UNCHANGED rStorage
       \/ /\ rStorage' = [rStorage EXCEPT
                 ![lastInvoice.invoice.agreementID] =
                     EncodeToString(lastInvoice.r)]
          /\ pc' = "requestPromise"
          /\ UNCHANGED receiveErr
    /\ UNCHANGED <<cfgVars, result, stopVars, timerVars, trackerVars,
                   localVars, invoiceStorage, nextAgreementID,
                   promiseStorage, envVars, logVars, histVars>>

\* a faulty variant of minBound: the walk goes down to 0 when the current
\* id is within the recovery length
minBoundFromZero ==
    IF lastInvoice.invoice.agreementID > maxRRecoveryLength
    THEN lastInvoice.invoice.agreementID - maxRRecoveryLength
    ELSE 0

\* the lower end of the agreement ids initiateRRecovery visits
minBound ==
    IF lastInvoice.invoice.agreementID > maxRRecoveryLength
    THEN lastInvoice.invoice.agreementID - maxRRecoveryLength
    ELSE 1

\* accountantCaller.RequestPromise(pm): a promise, a 400 Bad Request that
\* starts the recovery of R, or another error
RequestPromise ==
    /\ pc = "requestPromise"
    /\ calls' = Append(calls, "RequestPromise")
    /\ \E answer \in {"ok", "400", "500"} :
          CASE answer = "ok" ->
                 /\ accountantFailureCount' = 0
                 /\ promise' = <<[amount |-> pm.amount,
                                  hashlock |-> pm.hashlock]>>
                 /\ pc' = "storePromise"
                 /\ UNCHANGED <<receiveErr, recoveryI>>
            [] answer = "400" ->
                 /\ recoveryI' = lastInvoice.invoice.agreementID
                 /\ pc' = "recoveryGetR"
                 /\ UNCHANGED <<receiveErr, accountantFailureCount, promise>>
            [] OTHER ->
                 /\ AccountantFailed
                 /\ UNCHANGED <<promise, recoveryI>>
    /\ UNCHANGED <<cfgVars, result, stopVars, timerVars, transactorFee,
                   lastInvoice, lastExchangeMessage,
                   notReceivedExchangeMessageCount, pm, accountantPromise,
                   storeVars, envVars, logVars, histVars>>

\* a faulty variant of RecoveryGetR: a recovery that failed is counted like
\* any failure of the accountant
RecoveryGetRCounted ==
    /\ pc = "recoveryGetR"
    /\ IF recoveryI < minBound
       THEN /\ AccountantFailed
            /\ UNCHANGED calls
       ELSE /\ calls' = Append(calls, "GetR")
            /\ \/ AccountantFailed
               \/ /\ rStorage[recoveryI] # <<>>
                  /\ pc' = "recoveryRevealR"
                  /\ UNCHANGED <<receiveErr, accountantFailureCount>>
    /\ UNCHANGED <<cfgVars, result, stopVars, timerVars, transactorFee,
                   lastInvoice, lastExchangeMessage,
                   notReceivedExchangeMessageCount, localVars, storeVars,
                   envVars, logVars, histVars>>

\* initiateRRecovery: the loop's test, and invoiceStorage.GetR(i); an id
\* without an R fails
RecoveryGetR ==
    /\ pc = "recoveryGetR"
    /\ IF recoveryI < minBound
       THEN /\ ReceiveReturns("could not recover R")
            /\ UNCHANGED calls
       ELSE /\ calls' = Append(calls, "GetR")
            /\ \/ ReceiveReturns("could not recover R")
               \/ /\ rStorage[recoveryI] # <<>>
                  /\ pc' = "recoveryRevealR"
                  /\ UNCHANGED receiveErr
    /\ UNCHANGED <<cfgVars, result, stopVars, timerVars, trackerVars,
                   localVars, storeVars, envVars, logVars, histVars>>

\* a faulty variant of RecoveryRevealR: after a successful recovery the
\* failed request is not counted
RecoveryRevealRUncounted ==
    /\ pc = "recoveryRevealR"
    /\ calls' = Append(calls, "RecoveryRevealR")
    /\ \/ /\ recoveryI' = recoveryI - 1
          /\ pc' = "recoveryGetR"
          /\ UNCHANGED <<receiveErr, revealed, revealedAgain>>
       \/ /\ Disclose(rStorage[recoveryI])
          /\ ReceiveReturns("nil")
          /\ UNCHANGED recoveryI
    /\ UNCHANGED <<cfgVars, result, stopVars, timerVars, trackerVars, pm,
                   accountantPromise, promise, storeVars, envVars, sent,
                   stored, published, rounds, histVars>>

\* initiateRRecovery: accountantCaller.RevealR of the R loaded for id i,
\* under the current agreement id; on success the recovery returns nil and
\* the failed request is counted
RecoveryRevealR ==
    /\ pc = "recoveryRevealR"
    /\ calls' = Append(calls, "RecoveryRevealR")
    /\ \/ /\ recoveryI' = recoveryI - 1
          /\ pc' = "recoveryGetR"
          /\ UNCHANGED <<receiveErr, accountantFailureCount, revealed,
                         revealedAgain>>
       \/ /\ Disclose(rStorage[recoveryI])
          /\ AccountantFailed
          /\ UNCHANGED recoveryI
    /\ UNCHANGED <<cfgVars, result, stopVars, timerVars, transactorFee,
                   lastInvoice, lastExchangeMessage,
                   notReceivedExchangeMessageCount, pm, accountantPromise,
                   promise, storeVars, envVars, sent, stored, published,
                   rounds, histVars>>

\* a faulty variant of the record: the hashlock where the R belongs
NewAccountantPromiseWithHashlock ==
    [promise |-> promise[1],
     r |-> EncodeToString(Keccak256(lastInvoice.r)),
     revealed |-> FALSE, agreementID |-> lastInvoice.invoice.agreementID]

\* the record of the new promise
NewAccountantPromise ==
    [promise |-> promise[1], r |-> EncodeToString(lastInvoice.r),
     revealed |-> FALSE, agreementID |-> lastInvoice.invoice.agreementID]

\* a faulty variant of StorePromise: a failed store is ignored
StorePromiseAbsorbed ==
    /\ pc = "storePromise"
    /\ calls' = Append(calls, "PromiseStore")
    /\ \/ /\ ReceiveReturns("nil")
          /\ UNCHANGED <<promiseStorage, promisesStored>>
       \/ /\ promiseStorage' = <<NewAccountantPromise>>
          /\ promisesStored' = promisesStored + 1
          /\ pc' = "publish"
          /\ UNCHANGED receiveErr
    /\ UNCHANGED <<cfgVars, result, stopVars, timerVars, trackerVars,
                   localVars, invoiceStorage, rStorage, nextAgreementID,
                   envVars, logVars, prevHashlock, prevSentAmount, latched,
                   timeoutsInARow>>

\* a faulty variant of StorePromise: the promise is published although its
\* record could not be stored
StorePromisePublishing ==
    /\ pc = "storePromise"
    /\ calls' = Append(calls, "PromiseStore")
    /\ \/ UNCHANGED <<promiseStorage, promisesStored>>
       \/ /\ promiseStorage' = <<NewAccountantPromise>>
          /\ promisesStored' = promisesStored + 1
    /\ pc' = "publish"
    /\ UNCHANGED <<cfgVars, result, stopVars, timerVars, trackerVars,
                   localVars, invoiceStorage, rStorage, nextAgreementID,
                   envVars, logVars, prevHashlock, prevSentAmount, latched,
                   timeoutsInARow, receiveErr>>

\* accountantPromiseStorage.Store of the new promise's record
StorePromise ==
    /\ pc = "storePromise"
    /\ calls' = Append(calls, "PromiseStore")
    /\ \/ /\ ReceiveReturns("could not store accountant promise")
          /\ UNCHANGED <<promiseStorage, promisesStored>>
       \/ /\ promiseStorage' = <<NewAccountantPromise>>
          /\ promisesStored' = promisesStored + 1
          /\ pc' = "publish"
          /\ UNCHANGED receiveErr
    /\ UNCHANGED <<cfgVars, result, stopVars, timerVars, trackerVars,
                   localVars, invoiceStorage, rStorage, nextAgreementID,
                   envVars, logVars, prevHashlock, prevSentAmount, latched,
                   timeoutsInARow>>

\* publisher.Publish of the promise, and the second reset of the counter
Publish ==
    /\ pc = "publish"
    /\ calls' = Append(calls, "Publish")
    /\ published' = published + 1
    /\ accountantFailureCount' = 0
    /\ ReceiveReturns("nil")
    /\ UNCHANGED <<cfgVars, result, stopVars, timerVars, transactorFee,
                   lastInvoice, lastExchangeMessage,
                   notReceivedExchangeMessageCount, localVars, storeVars,
                   envVars, sent, stored, revealed, revealedAgain, rounds,
                   histVars>>

(* -------- sendInvoiceExpectExchangeMessage, after the receive --------- *)

\* a faulty variant of notReceivedAfter: the timeout is not counted
notReceivedUncounted(err) == notReceivedExchangeMessageCount

\* handleExchangeMessageReceiveError(err): the count after it, and whether
\* it returns an error
notReceivedAfter(err) ==
    IF err = "ErrExchangeWaitTimeout"
    THEN notReceivedExchangeMessageCount + 1
    ELSE notReceivedExchangeMessageCount

\* a faulty variant of handleExchangeMessageReceiveError: > for >=
handleReceiveErrorStrict(err) ==
    IF err = "ErrExchangeWaitTimeout"
    THEN notReceivedAfter(err) > maxNotReceivedExchangeMessages
    ELSE TRUE

handleExchangeMessageReceiveError(err) ==
    IF err = "ErrExchangeWaitTimeout"
    THEN notReceivedAfter(err) >= maxNotReceivedExchangeMessages
    ELSE TRUE

\* the end of sendInvoiceExpectExchangeMessage, and of the loop's iteration:
\* an error is handled, a nil resets the count.  The locals of the receive
\* are gone.  The round took some time: the firstSend timer's second may
\* have passed meanwhile.
HandleReceive ==
    /\ pc = "handleReceive"
    /\ IF receiveErr # "nil"
       THEN /\ notReceivedExchangeMessageCount' = notReceivedAfter(receiveErr)
            /\ IF handleExchangeMessageReceiveError(receiveErr)
               THEN Return(receiveErr)
               ELSE pc' = "select" /\ UNCHANGED result
       ELSE /\ notReceivedExchangeMessageCount' = 0
            /\ pc' = "select"
            /\ UNCHANGED result
    /\ firstIteration' = FALSE
    /\ \E passed \in BOOLEAN :
          secondPassed' = (secondPassed \/ (firstSendPending /\ passed))
    /\ pm' = ZeroExchangeMessage /\ accountantPromise' = <<>>
    /\ promise' = <<>> /\ recoveryI' = 0
    /\ UNCHANGED <<cfgVars, receiveErr, stopVars, firstSendPending,
                   transactorFee, lastInvoice, lastExchangeMessage,
                   accountantFailureCount, storeVars, envVars, calls,
                   logVars, histVars>>

(* -------------------------------- Stop -------------------------------- *)

\* a faulty variant of Stop: the channel is closed without once.Do, by
\* every call
StopWithoutOnce ==
    /\ stopCalls < MaxStopCalls
    /\ stopCalls' = stopCalls + 1
    /\ stop' = TRUE /\ stopCloses' = stopCloses + 1
    /\ UNCHANGED <<cfgVars, pc, result, receiveErr, timerVars, trackerVars,
                   localVars, storeVars, envVars, calls, logVars, histVars>>

\* Stop, from any task at any time: once.Do closes the stop channel
Stop ==
    /\ stopCalls < MaxStopCalls
    /\ stopCalls' = stopCalls + 1
    /\ IF stop
       THEN UNCHANGED <<stop, stopCloses>>
       ELSE stop' = TRUE /\ stopCloses' = stopCloses + 1
    /\ UNCHANGED <<cfgVars, pc, result, receiveErr, timerVars, trackerVars,
                   localVars, storeVars, envVars, calls, logVars, histVars>>

(* --------------------------- specification ---------------------------- *)

Next ==
    \/ StartTracking
    \/ IsRegistered
    \/ FetchSettleFees
    \/ GetAccountantFee
    \/ generateInitialInvoice
    \/ SelectFirstSend
    \/ SelectStop
    \/ SelectChargePeriod
    \/ SendInvoice
    \/ StoreInvoice
    \/ ReceiveExchangeMessage
    \/ ReceiveTimeout
    \/ ReceiveStop
    \/ GetPromise
    \/ RevealR
    \/ StoreRevealed
    \/ StoreR
    \/ RequestPromise
    \/ RecoveryGetR
    \/ RecoveryRevealR
    \/ StorePromise
    \/ Publish
    \/ HandleReceive
    \/ Stop

Spec == Init /\ [][Next]_vars

(* ------------------------- the silent consumer ------------------------ *)

\* charge periods of an hour and of five hours: the session ends with the
\* second timeout in a row, or with the first
SilentChargePeriods == {3600000, 18000000}

SilentInit == InitWith(SilentChargePeriods)

\* the round's first part, the time tracker answering with its next sample
SilentSendInvoice ==
    /\ SendInvoice
    /\ \A x \in LaterSamples : elapsed' <= x

\* the session with a consumer that never puts an exchange message on the
\* channel, and without a call of Stop
SilentNext ==
    \/ StartTracking
    \/ IsRegistered
    \/ FetchSettleFees
    \/ GetAccountantFee
    \/ generateInitialInvoice
    \/ SelectFirstSend
    \/ SelectChargePeriod
    \/ SilentSendInvoice
    \/ StoreInvoice
    \/ ReceiveTimeout
    \/ HandleReceive

\* the loop is a running goroutine and its timers fire: a step that can be
\* taken is taken
SilentSpec == SilentInit /\ [][SilentNext]_vars /\ WF_vars(SilentNext)

(* --------------------------- the recovery of R ------------------------ *)

\* the agreement ids of the session and the recovery lengths it is
\* configured with
RecoveryCurrents == 0..3
RecoveryLengthsWalked == 0..2

\* the R an earlier session stored under agreement id
EarlierR(id) == RandRead(100 + id)

\* the invoice of the round, sent under the agreement id current, and the
\* exchange message the consumer answered it with
RecoveryInvoice(current) ==
    CreateInvoice(current, Lenient(ShouldBe(1300)), 3, RandRead(2))
RecoveryMessage(current) ==
    [valid |-> TRUE, signer |-> "peer", amount |-> 0,
     hashlock |-> HashlockBytes(RecoveryInvoice(current).hashlock),
     channelID |-> ChannelAddress, agreementTotal |-> 0]

\* the state in which initiateRRecovery is entered in the first round of a
\* session: the invoice is sent and stored, the message accepted, no
\* promise record found, the R stored under the current id, and
\* RequestPromise has answered 400 Bad Request; the R's of earlier
\* agreements are in the store or not
RecoveryInit ==
    /\ chargePeriod = 3600000
    /\ maxAccountantFailureCount \in AccountantFailureLimits
    /\ maxRRecoveryLength \in RecoveryLengthsWalked
    /\ maxNotReceivedExchangeMessages =
           calculateMaxNotReceivedExchangeMessageCount(chargePeriodLeeway,
                                                       3600000)
    /\ pc = "recoveryGetR" /\ result = "running" /\ receiveErr = "nil"
    /\ stop = FALSE /\ stopCalls = 0 /\ stopCloses = 0
    /\ firstSendPending = FALSE /\ secondPassed = TRUE
    /\ firstIteration = TRUE
    /\ transactorFee = 3
    /\ notReceivedExchangeMessageCount = 0
    /\ accountantFailureCount = 0
    /\ accountantPromise = <<>> /\ promise = <<>>
    /\ promiseStorage = <<>>
    /\ \E current \in RecoveryCurrents :
          /\ lastInvoice = [invoice |-> RecoveryInvoice(current),
                            r |-> RandRead(2)]
          /\ lastExchangeMessage = RecoveryMessage(current)
          /\ pm = RecoveryMessage(current)
          /\ recoveryI = current
          /\ invoiceStorage = <<RecoveryInvoice(current)>>
          /\ nextAgreementID = current + 1
          /\ \E earlier \in SUBSET {id \in RecoveryCurrents : id < current} :
                rStorage = [id \in RecoveryCurrents |->
                               IF id = current
                               THEN EncodeToString(RandRead(2))
                               ELSE IF id \in earlier
                               THEN EncodeToString(EarlierR(id))
                               ELSE <<>>]
          /\ prevHashlock = CreateInvoice(current, PaymentPrice, 0,
                                          RandRead(1)).hashlock
    /\ elapsed = 1300 /\ randCount = 2
    /\ calls = <<"Elapsed", "Send", "Store", "validate", "PromiseGet",
                 "StoreR", "RequestPromise">>
    /\ sent = 1 /\ stored = 1
    /\ revealed = {} /\ revealedAgain = {}
    /\ published = 0 /\ rounds = 1
    /\ prevSentAmount = 0 /\ promisesStored = 0
    /\ latched = {}
    /\ timeoutsInARow = 0

\* initiateRRecovery alone, up to its return
RecoveryNext ==
    \/ RecoveryGetR
    \/ RecoveryRevealR

\* the calls of the stores and of the accountant return
RecoverySpec ==
    RecoveryInit /\ [][RecoveryNext]_vars /\ WF_vars(RecoveryNext)

(* ------------------------------ properties ---------------------------- *)

\* the calls of the current phase, as a set
Called == {calls[i] : i \in DOMAIN calls}

\* the promise record rec belongs to the exchange message em: it holds the
\* promise requested for em, and its R is the preimage of em's hashlock
RecordMatches(rec, em) ==
    /\ rec.promise.hashlock = em.hashlock
    /\ rec.promise.amount = em.amount
    /\ Keccak256(DecodeString(rec.r).bytes) = em.hashlock

\* C1: the promise amounts of the accepted exchange messages never
\* decrease: no step replaces lastExchangeMessage by a message with a lower
\* promise amount.
C1_PromiseAmountsNonDecreasing ==
    [][lastExchangeMessage'.amount >= lastExchangeMessage.amount]_vars

\* C1, its case: a message offering less than the last accepted one was
\* turned down
C1_Witness ==
    /\ receiveErr = "ErrConsumerPromiseValidationFailed: invalid amount"
    /\ lastExchangeMessage.amount > 0

\* C2: with elapsed time advancing and valid exchange messages of any
\* agreement total, the amount of each invoice sent is at least the amount
\* of the invoice sent before it.
C2_InvoiceAmountsNonDecreasing ==
    sent >= 2 => lastInvoice.invoice.amount >= prevSentAmount

\* C3 as stated: between rounds, once this session stored a promise, one
\* record exists and it belongs to the last accepted exchange message, also
\* after a round whose accountant failure was ignored.
C3_RecordMatchesLastExchangeMessage ==
    (pc = "select" /\ promisesStored > 0) =>
        /\ Len(promiseStorage) = 1
        /\ RecordMatches(promiseStorage[1], lastExchangeMessage)

\* C3 as amended: once this session stored a promise, one record exists;
\* its R is the preimage of the hashlock of the promise it holds; and it
\* belongs to the last accepted exchange message from the moment it is
\* stored until the next message is accepted, so after every round that
\* stored a promise.
C3_RecordMatchesAfterStoredRound ==
    promisesStored > 0 =>
        /\ Len(promiseStorage) = 1
        /\ Keccak256(DecodeString(promiseStorage[1].r).bytes)
               = promiseStorage[1].promise.hashlock
        /\ (pc = "publish" \/ "Publish" \in Called) =>
               RecordMatches(promiseStorage[1], lastExchangeMessage)

\* C3, its case: a round accepted a message and ignored a failed RevealR; the
\* record is still the one of an earlier message
C3_Witness ==
    /\ pc = "select" /\ promisesStored > 0
    /\ calls # <<>> /\ calls[Len(calls)] = "RevealR"
    /\ Len(promiseStorage) = 1
    /\ ~RecordMatches(promiseStorage[1], lastExchangeMessage)

\* C4 as stated: no R is passed to a successful RevealR more than once.
C4_NoRRevealedTwice == revealedAgain = {}

\* C4 as amended: within a session the reveal of the stored promise's R
\* (Step A) never carries an R that a successful RevealR carried before;
\* only the recovery of R reveals again, and what it reveals again is an R
\* stored under an earlier agreement id.
C4_OnlyRecoveryRevealsAgain ==
    /\ pc = "revealR" => accountantPromise[1].r \notin revealed
    /\ \A r \in revealedAgain :
          \E id \in DOMAIN rStorage :
             id < lastInvoice.invoice.agreementID /\ rStorage[id] = r

\* C4, its case: the recovery of R revealed an R that Step A had revealed
C4_Witness == revealedAgain # {} /\ revealedAgain \subseteq latched

\* C5: a record stored as not revealed never holds an R that was stored as
\* revealed before, and a record stored as revealed holds an R that a
\* successful RevealR carried.
C5_RevealedIsALatch ==
    promiseStorage # <<>> =>
        IF promiseStorage[1].revealed
        THEN promiseStorage[1].r \in revealed
        ELSE promiseStorage[1].r \notin latched

\* C5, its case: a new record, not revealed, after an R was stored as revealed
C5_Witness ==
    /\ promiseStorage # <<>> /\ ~promiseStorage[1].revealed
    /\ promisesStored > 0 /\ latched # {}

\* C6 as stated: an invoice that was sent is in the invoice store already.
C6_StoredBeforeSent ==
    sent > 0 => invoiceStorage = <<lastInvoice.invoice>>

\* C6 as amended: an invoice is stored only after it was sent: the store
\* never holds more invoices than were sent, a failed send stores nothing,
\* and when the exchange message is awaited the invoice sent is the one
\* stored.
C6_SentBeforeStored ==
    /\ stored <= sent
    /\ invoiceStorage # <<>> => stored > 0
    /\ pc = "storeInvoice" => sent = stored + 1
    /\ pc = "receive" =>
           sent = stored /\ invoiceStorage = <<lastInvoice.invoice>>
    /\ result = "send failed" => sent = stored /\ "Store" \notin Called

\* C6, its case: the second invoice is sent and not stored yet
C6_Witness ==
    /\ pc = "storeInvoice" /\ sent = 2 /\ stored = 1
    /\ invoiceStorage # <<lastInvoice.invoice>>

\* C7: RequestPromise is called only when the promise store holds no record
\* or a revealed one, and in a round that called StoreR or RequestPromise
\* every RevealR was followed by the store of the revealed record.
C7_RevealBeforeRequest ==
    /\ pc = "requestPromise" =>
           promiseStorage = <<>> \/ promiseStorage[1].revealed
    /\ \A i, j \in DOMAIN calls :
          (calls[i] = "RevealR" /\ calls[j] \in {"StoreR", "RequestPromise"})
              => (i < j /\ calls[i + 1] = "PromiseStore")

\* C7, its case: the request follows the reveal of the earlier record
C7_Witness ==
    /\ pc = "requestPromise" /\ "RevealR" \in Called
    /\ promiseStorage # <<>> /\ promiseStorage[1].revealed

\* C8: when RequestPromise is called the R of lastInvoice is stored under
\* its agreement id, and a failed StoreR ends the session without a call
\* of RequestPromise.
C8_StoreRBeforeRequest ==
    /\ pc = "requestPromise" =>
           rStorage[lastInvoice.invoice.agreementID]
               = EncodeToString(lastInvoice.r)
    /\ \A i, j \in DOMAIN calls :
          (calls[i] = "StoreR" /\ calls[j] = "RequestPromise") => i < j
    /\ receiveErr = "could not store r" =>
           /\ "RequestPromise" \notin Called
           /\ pc \in {"handleReceive", "Done"}
           /\ pc = "Done" => result = "could not store r"

\* C8, its case: the second round's R replaced the first round's before the
\* request
C8_Witness ==
    /\ pc = "requestPromise" /\ sent = 2
    /\ rStorage[lastInvoice.invoice.agreementID] = EncodeToString(lastInvoice.r)

\* the calls Start makes for its preconditions, in their order
PreconditionCalls ==
    <<"StartTracking", "IsRegistered", "FetchSettleFees", "GetAccountantFee",
      "GetNewAgreementID">>

\* the errors of the preconditions, each with the number of calls made
\* when it is returned
PreconditionErrors ==
    {<<"could not check customer identity registration status", 2>>,
     <<"ErrConsumerNotRegistered", 2>>,
     <<"could not fetch fees", 3>>,
     <<"could not get accountants fee", 4>>,
     <<"ErrAccountantFeeTooLarge", 4>>,
     <<"could not generate initial invoice", 5>>}

\* C9: the preconditions are checked in the order registration, settlement
\* fee, accountant fee, initial invoice; when one fails Start returns its
\* error having called nothing that comes later, sent no invoice and stored
\* nothing; the loop is entered only after all of them.
C9_PreconditionsInOrder ==
    /\ \A e \in PreconditionErrors :
          result = e[1] =>
              /\ calls = SubSeq(PreconditionCalls, 1, e[2])
              /\ sent = 0 /\ stored = 0 /\ invoiceStorage = <<>>
              /\ promisesStored = 0 /\ published = 0 /\ revealed = {}
              /\ lastInvoice = ZeroInvoice
              /\ rStorage[nextAgreementID] = <<>>
    /\ (pc = "select" /\ rounds = 0) => calls = PreconditionCalls

\* C9, its case: the consumer is not registered
C9_Witness == pc = "Done" /\ result = "ErrConsumerNotRegistered"

SilentCollaboratorErrors ==
    {e[1] : e \in PreconditionErrors}
        \cup {"send failed", "could not store invoice"}

LastCall == IF calls = <<>> THEN "none" ELSE calls[Len(calls)]

\* the receive ended with the accountant's failure counted
CountedFailure ==
    IF accountantFailureCount <= maxAccountantFailureCount
    THEN receiveErr = "nil"
    ELSE receiveErr = "could not call accountant"

\* the counter is 0 after a successful RevealR of the stored record's R,
\* after a successful RequestPromise and after a completed round
ZeroAfterSuccess ==
    /\ pc \in {"storeRevealed", "storePromise"} => accountantFailureCount = 0
    /\ (pc = "handleReceive" /\ LastCall = "Publish") =>
           accountantFailureCount = 0

\* C12 as stated: a round whose RevealR or RequestPromise failed ends with
\* nil when the count it leaves is at most maxAccountantFailureCount and
\* with the accountant's error when the count exceeds it, and the count is 0
\* after every success.
C12_FailuresAbsorbedUntilMax ==
    /\ (pc = "handleReceive"
           /\ LastCall \in {"RevealR", "RequestPromise", "GetR",
                             "RecoveryRevealR"}) => CountedFailure
    /\ ZeroAfterSuccess

\* C12 as amended: a failed RevealR of the stored record's R, and a failed
\* RequestPromise that was no 400 Bad Request or whose recovery of R
\* succeeded, is counted: the round ends with nil when the count is at most
\* the maximum, and Start returns the accountant's error with the count at
\* the maximum plus one.  A 400 Bad Request whose recovery fails is not
\* counted and ends the session whatever the count.  The count is 0 after a
\* successful RevealR of the stored record's R, after a successful
\* RequestPromise and after a completed round; the successful RevealR of the
\* recovery is followed by the increment instead.
C12_CountedFailuresAbsorbedUntilMax ==
    /\ (pc = "handleReceive" /\ LastCall \in {"RevealR", "RequestPromise"})
           => CountedFailure /\ accountantFailureCount >= 1
    /\ (pc = "handleReceive" /\ LastCall \in {"GetR", "RecoveryRevealR"}) =>
           IF receiveErr = "could not recover R"
           THEN accountantFailureCount <= maxAccountantFailureCount
           ELSE CountedFailure /\ accountantFailureCount >= 1
    /\ result = "could not recover R" =>
           accountantFailureCount <= maxAccountantFailureCount
    /\ result = "could not call accountant" =>
           accountantFailureCount = maxAccountantFailureCount + 1
    /\ pc \notin {"handleReceive", "Done"} =>
           accountantFailureCount <= maxAccountantFailureCount
    /\ ZeroAfterSuccess

\* C12, its case: a failed RequestPromise brought the count to the maximum
\* and the session went on
C12_Witness ==
    /\ pc = "select" /\ LastCall = "RequestPromise"
    /\ accountantFailureCount = 1 /\ maxAccountantFailureCount = 1
    /\ result = "running"

\* the receive ended after a 400 Bad Request whose recovery of R succeeded
RecoveredFrom400 ==
    /\ LastCall = "RecoveryRevealR"
    /\ receiveErr # "could not recover R"

\* C13 as stated: after a 400 Bad Request whose recovery of R succeeded the
\* round ends with nil and the session goes on, whatever the maximum and
\* the count.
C13_RecoveredSessionContinues ==
    /\ (pc = "handleReceive" /\ RecoveredFrom400) => receiveErr = "nil"
    /\ (pc = "Done" /\ RecoveredFrom400) => result = "nil"

\* C13 as amended: after a 400 Bad Request whose recovery of R succeeded the
\* failed request is counted; the round ends with nil and the loop goes on
\* to the next round when the count it leaves is at most
\* maxAccountantFailureCount, and Start returns the accountant's error when
\* the count before it was at the maximum already (so always with a
\* maximum of 0).
C13_RecoveredSessionContinuesBelowMax ==
    /\ (pc = "handleReceive" /\ RecoveredFrom400) =>
           /\ accountantFailureCount >= 1
           /\ receiveErr = IF accountantFailureCount <= maxAccountantFailureCount
                           THEN "nil" ELSE "could not call accountant"
    /\ (pc = "select" /\ RecoveredFrom400) =>
           /\ result = "running" /\ receiveErr = "nil"
           /\ accountantFailureCount \in 1..maxAccountantFailureCount
    /\ (pc = "Done" /\ RecoveredFrom400 /\ result # "nil") =>
           /\ result = "could not call accountant"
           /\ accountantFailureCount = maxAccountantFailureCount + 1

\* C13, its case: the recovery succeeded, the request was counted and the
\* loop is at its next wait
C13_Witness ==
    /\ pc = "select" /\ RecoveredFrom400
    /\ accountantFailureCount = 1 /\ result = "running"

\* C14: when peerInvoiceSender.Send fails Start returns its error, and the
\* step that fails leaves the tracker and the stores as they were: nothing
\* is stored, lastInvoice keeps its invoice and its R, lastExchangeMessage
\* and both counters keep their values; no exchange message is awaited.
C14_FailedSendHasNoEffect ==
    /\ [][result' = "send failed" /\ result # "send failed" =>
             /\ pc = "sendInvoice" /\ pc' = "Done"
             /\ UNCHANGED <<lastInvoice, lastExchangeMessage,
                            notReceivedExchangeMessageCount,
                            accountantFailureCount, transactorFee, storeVars,
                            sent, stored, revealed, published, promisesStored,
                            receiveErr>>]_vars
    /\ [](result = "send failed" =>
             /\ pc = "Done" /\ calls = <<"Elapsed", "Send">>
             /\ sent = stored
             /\ sent > 0 => invoiceStorage = <<lastInvoice.invoice>>)

\* C14, its case: the send of the second round failed; the invoice of the
\* first round is still the last one
C14_Witness ==
    /\ result = "send failed" /\ sent = 1 /\ rounds = 2
    /\ invoiceStorage = <<lastInvoice.invoice>>

\* the errors validateExchangeMessage returns
ValidationErrors ==
    {"ErrExchangeValidationFailed", "could not recover promise signature",
     "identity missmatch",
     "ErrConsumerPromiseValidationFailed: invalid amount",
     "could not decode hashlock",
     "ErrConsumerPromiseValidationFailed: missmatching hashlock",
     "could not generate channel address", "could not decode expected chanel",
     "ErrConsumerPromiseValidationFailed: invalid channel address"}

\* C15: an exchange message that fails the validation ends the session
\* with the validation's error and changes nothing: lastExchangeMessage,
\* the stores and the counters keep their values, and the round calls
\* neither RevealR nor StoreR nor RequestPromise, stores no promise and
\* publishes nothing.
C15_RejectedMessageHasNoEffect ==
    /\ [][(pc = "receive" /\ receiveErr' \in ValidationErrors) =>
             /\ pc' = "handleReceive"
             /\ UNCHANGED <<lastExchangeMessage, lastInvoice, storeVars,
                            accountantFailureCount,
                            notReceivedExchangeMessageCount, revealed,
                            published, promisesStored>>]_vars
    /\ [][(pc = "handleReceive" /\ receiveErr \in ValidationErrors
               /\ pc' # pc) =>
             /\ pc' = "Done" /\ result' = receiveErr
             /\ UNCHANGED <<lastExchangeMessage, lastInvoice, storeVars,
                            accountantFailureCount,
                            notReceivedExchangeMessageCount, revealed,
                            published, promisesStored>>]_vars
    /\ [](receiveErr \in ValidationErrors =>
             /\ pc \in {"handleReceive", "Done"}
             /\ calls = <<"Elapsed", "Send", "Store", "validate">>
             /\ pc = "Done" => result = receiveErr)

\* C15, its case: the second round's message, with the hashlock of the
\* invoice before, was turned down; the message and the record of the first
\* round are still there
C15_Witness ==
    /\ pc = "Done"
    /\ result = "ErrConsumerPromiseValidationFailed: missmatching hashlock"
    /\ promisesStored = 1 /\ published = 1
    /\ RecordMatches(promiseStorage[1], lastExchangeMessage)

\* the session began with an empty promise store (its agreement id is the
\* first the store gave) and every one of its n rounds published a promise
SuccessfulRounds(n) ==
    /\ lastInvoice.invoice.agreementID = 1
    /\ rounds >= 1 /\ published = n

\* C16: from an empty promise store, after N rounds that all succeeded, N
\* invoices and N new promise records are stored, the record in the store
\* being the last round's, N - 1 distinct R's were revealed, none twice,
\* and N events are published; the RevealR of a round carries the R and the
\* agreement id of the record the round before stored, whose promise is the
\* one for the invoice of that round.
C16_SuccessfulRoundsCounts ==
    /\ (pc = "select" /\ SuccessfulRounds(rounds)) =>
           /\ sent = rounds /\ stored = rounds
           /\ promisesStored = rounds
           /\ Cardinality(revealed) = rounds - 1
           /\ revealedAgain = {}
           /\ promiseStorage =
                  <<[promise |-> [amount |-> lastExchangeMessage.amount,
                                  hashlock |-> lastExchangeMessage.hashlock],
                     r |-> EncodeToString(lastInvoice.r),
                     revealed |-> FALSE,
                     agreementID |-> lastInvoice.invoice.agreementID]>>
    /\ (pc = "revealR" /\ SuccessfulRounds(rounds - 1)) =>
           /\ accountantPromise = promiseStorage
           /\ accountantPromise[1].r
                  = rStorage[lastInvoice.invoice.agreementID]
           /\ accountantPromise[1].agreementID
                  = lastInvoice.invoice.agreementID
           /\ accountantPromise[1].promise.hashlock
                  = HashlockBytes(prevHashlock)
           /\ Keccak256(DecodeString(accountantPromise[1].r).bytes)
                  = HashlockBytes(prevHashlock)
           /\ accountantPromise[1].r \notin revealed
    /\ (pc = "storeRevealed" /\ SuccessfulRounds(rounds - 1)) =>
           /\ accountantPromise[1].r \in revealed
           /\ Cardinality(revealed) = rounds - 1

\* C16, its case: three rounds succeeded
C16_Witness ==
    /\ pc = "select" /\ SuccessfulRounds(3) /\ rounds = 3
    /\ stored = 3 /\ promisesStored = 3 /\ Cardinality(revealed) = 2

\* C17: however many times Stop is called and wherever the session loop
\* is, the stop channel is closed exactly once, by the first call (a second
\* close would panic); a later call changes nothing, and no call changes
\* anything of the tracker but the channel.
C17_StopClosesOnce ==
    /\ [](/\ stopCloses <= 1
          /\ stop <=> stopCalls >= 1
          /\ stopCloses = 1 <=> stopCalls >= 1)
    /\ [][stopCalls' # stopCalls =>
             /\ stopCalls' = stopCalls + 1
             /\ UNCHANGED <<cfgVars, pc, result, receiveErr, timerVars,
                            trackerVars, localVars, storeVars, envVars,
                            calls, logVars, histVars>>
             /\ stopCalls >= 1 => UNCHANGED <<stop, stopCloses>>]_vars

\* C17, its case: Stop was called a second time while the loop waited for
\* an exchange message
C17_Witness ==
    /\ stopCalls = 2 /\ stopCloses = 1 /\ stop
    /\ pc = "receive"

\* C18: once the wait for the exchange message has taken the stop case, no
\* further invoice is sent, and Start returns nil.
C18_NoInvoiceAfterStopObserved ==
    [][LastCall = "stop" =>
          /\ sent' = sent
          /\ pc' = "Done" => result' = "nil"]_vars

\* an invoice was just sent with no exchange message accepted before it
FirstBillingSent ==
    pc = "storeInvoice" /\ lastExchangeMessage = ZeroExchangeMessage

\* floor(elapsed minutes * price * 0.8), the elapsed time in milliseconds
SingleFloor(e, price) == (e * price * 4) \div (Minute * 5)

\* C19 as stated: the amount of an invoice of the first billing is
\* floor(elapsed minutes * price * 0.8).
C19_FirstAmountIsSingleFloor ==
    FirstBillingSent =>
        lastInvoice.invoice.amount = SingleFloor(elapsed, PaymentPrice)

\* C19 as amended: the amount of an invoice of the first billing is
\* floor(floor(elapsed minutes * price) * 0.8): the product is truncated
\* before the factor is applied, so the amount is the single floor or one
\* less.
C19_FirstAmountIsDoubleFloor ==
    FirstBillingSent =>
        /\ lastInvoice.invoice.amount
               = (((elapsed * PaymentPrice) \div Minute) * 4) \div 5
        /\ lastInvoice.invoice.amount
               \in {SingleFloor(elapsed, PaymentPrice) - 1,
                    SingleFloor(elapsed, PaymentPrice)}

\* C19, its case: 1.3 seconds at the price: the truncated product times
\* 0.8 truncates to one less than the single floor
C19_Witness ==
    /\ FirstBillingSent /\ elapsed = 1300
    /\ lastInvoice.invoice.amount = SingleFloor(elapsed, PaymentPrice) - 1

\* C20: when the preconditions have passed, lastInvoice holds an invoice
\* with the agreement id just allocated, the amount zero, a fresh R and the
\* hashlock H(R), and the invoice was neither sent nor stored.
C20_InitialInvoiceIsZero ==
    (pc = "select" /\ rounds = 0) =>
        /\ lastInvoice.invoice.agreementID = nextAgreementID - 1
        /\ lastInvoice.invoice.amount = 0
        /\ lastInvoice.r = RandRead(randCount)
        /\ HashlockBytes(lastInvoice.invoice.hashlock)
               = Keccak256(lastInvoice.r)
        /\ sent = 0 /\ stored = 0 /\ invoiceStorage = <<>>

\* the errors of the stores' calls in a round, as the receive returns them
StorageErrors ==
    {"could not get accountant promise", "could not store accountant promise",
     "could not store r", "could not recover R"}

\* the stores' calls
StorageCalls ==
    {"Store", "PromiseGet", "PromiseStore", "StoreR", "GetR",
     "GetNewAgreementID"}

\* C21: a failed call of a store (the invoice store's Store, StoreR, GetR
\* and GetNewAgreementID, the promise store's Get and Store) makes Start
\* return an error: the failing step changes neither counter, the loop
\* never goes on to a next round from a round that ended with a store's
\* call, and the error the receive returned is the one Start returns.
C21_StorageFailuresAreFatal ==
    /\ [](receiveErr \in StorageErrors =>
             /\ pc \in {"handleReceive", "Done"}
             /\ pc = "Done" => result = receiveErr)
    /\ []((pc = "handleReceive" /\ LastCall \in StorageCalls) =>
             receiveErr \in StorageErrors)
    /\ []((pc = "select" /\ rounds > 0) => LastCall \notin StorageCalls)
    /\ []((pc = "Done" /\ rounds > 0 /\ LastCall \in StorageCalls) =>
             result \in StorageErrors \cup {"could not store invoice"})
    /\ []((pc = "Done" /\ LastCall = "GetNewAgreementID"
               /\ lastInvoice = ZeroInvoice) =>
             result = "could not generate initial invoice")
    /\ [][(receiveErr' \in StorageErrors /\ pc = "handleReceive"
               /\ pc' # pc) =>
             /\ pc' = "Done" /\ result' = receiveErr
             /\ UNCHANGED <<accountantFailureCount,
                            notReceivedExchangeMessageCount>>]_vars
    /\ [][(pc' = "handleReceive" /\ pc # "handleReceive"
               /\ receiveErr' \in StorageErrors) =>
             UNCHANGED <<accountantFailureCount,
                         notReceivedExchangeMessageCount>>]_vars

\* C21, its case: with an accountant failure counted and below the
\* maximum, the promise store's Get failed and Start returned its error
C21_Witness ==
    /\ pc = "Done" /\ result = "could not get accountant promise"
    /\ accountantFailureCount = 1 /\ maxAccountantFailureCount = 1

\* how many times the current phase called c
CountCalls(c) == Cardinality({i \in DOMAIN calls : calls[i] = c})

\* max(1, current - maxRRecoveryLength)
LowestVisited ==
    IF lastInvoice.invoice.agreementID - maxRRecoveryLength > 1
    THEN lastInvoice.invoice.agreementID - maxRRecoveryLength
    ELSE 1

\* C22: the recovery of R visits the agreement ids from the current one
\* down to max(1, current - maxRRecoveryLength), one GetR and one RevealR
\* for each; it returns at the first RevealR that succeeds, with an error
\* at the first GetR that fails, and with an error when the ids are used
\* up; it returns for every current id and length, after at most
\* maxRRecoveryLength + 1 calls of RevealR.
C22_RecoveryWalksBackToBound ==
    /\ <>(pc = "handleReceive")
    /\ [](/\ recoveryI >= 0
          /\ CountCalls("RecoveryRevealR") <= maxRRecoveryLength + 1
          /\ CountCalls("GetR") <= maxRRecoveryLength + 1)
    /\ [](pc = "recoveryGetR" =>
             /\ recoveryI \in (LowestVisited - 1)..lastInvoice.invoice.agreementID
                    \/ lastInvoice.invoice.agreementID = 0
             /\ CountCalls("RecoveryRevealR")
                    = lastInvoice.invoice.agreementID - recoveryI
             /\ CountCalls("GetR") = CountCalls("RecoveryRevealR")
             /\ revealed = {})
    /\ [](pc = "recoveryRevealR" =>
             /\ recoveryI \in LowestVisited..lastInvoice.invoice.agreementID
             /\ rStorage[recoveryI] # <<>>
             /\ CountCalls("RecoveryRevealR")
                    = lastInvoice.invoice.agreementID - recoveryI
             /\ CountCalls("GetR") = CountCalls("RecoveryRevealR") + 1
             /\ revealed = {})
    /\ [](pc = "handleReceive" =>
             CASE LastCall = "GetR" ->
                    /\ receiveErr = "could not recover R"
                    /\ recoveryI \in LowestVisited..lastInvoice.invoice.agreementID
                    /\ revealed = {}
               [] receiveErr = "could not recover R" ->
                    /\ revealed = {}
                    /\ recoveryI < LowestVisited
                    /\ CountCalls("RecoveryRevealR") =
                           IF lastInvoice.invoice.agreementID = 0 THEN 0
                           ELSE lastInvoice.invoice.agreementID
                                    - LowestVisited + 1
               [] OTHER ->
                    /\ LastCall = "RecoveryRevealR"
                    /\ revealed = {rStorage[recoveryI]}
                    /\ CountCalls("RecoveryRevealR")
                           = lastInvoice.invoice.agreementID - recoveryI + 1)

\* C22, its case: the R of the current id and of the one below were turned
\* down and the third, at the bound, was accepted
C22_Witness ==
    /\ pc = "handleReceive" /\ receiveErr # "could not recover R"
    /\ CountCalls("RecoveryRevealR") = 3
    /\ recoveryI = LowestVisited /\ recoveryI = 1

\* the receive ended in a recovery of R that failed: its GetR failed, or
\* every id down to the bound was turned down
RecoveryFailed ==
    /\ pc = "handleReceive"
    /\ \/ LastCall = "GetR"
       \/ LastCall = "RecoveryRevealR" /\ recoveryI < LowestVisited

\* C23: when RequestPromise fails with 400 Bad Request and the recovery of R
\* fails, the receive returns the error and Start returns it, whatever the
\* count of the accountant's failures, which the round leaves as it was;
\* the round stores no new promise record and publishes nothing.
C23_FailedRecoveryIsFatal ==
    /\ [](RecoveryFailed =>
             /\ receiveErr = "could not recover R"
             /\ accountantFailureCount <= maxAccountantFailureCount
             /\ "Publish" \notin Called
             /\ promiseStorage # <<>> =>
                    promiseStorage[1].r # EncodeToString(lastInvoice.r))
    /\ [](receiveErr = "could not recover R" =>
             /\ pc \in {"handleReceive", "Done"}
             /\ pc = "Done" => result = "could not recover R")
    /\ [][(pc' = "handleReceive" /\ receiveErr' = "could not recover R") =>
             UNCHANGED <<accountantFailureCount, promiseStorage,
                         promisesStored, published>>]_vars
    /\ [][(RecoveryFailed /\ pc' # pc) =>
             /\ pc' = "Done" /\ result' = "could not recover R"
             /\ UNCHANGED <<accountantFailureCount, promiseStorage,
                            promisesStored, published>>]_vars

\* C23, its case: with a maximum of 1 and no failure counted, every R was
\* turned down and Start returned the error
C23_Witness ==
    /\ pc = "Done" /\ result = "could not recover R"
    /\ LastCall = "RecoveryRevealR"
    /\ accountantFailureCount = 0 /\ maxAccountantFailureCount = 1

\* C24 as stated: a round that revealed the stored record's R calls neither
\* StoreR nor RequestPromise, stores no new record and publishes nothing.
C24_RoundReturnsAfterReveal ==
    "RevealR" \in Called =>
        /\ Called \cap {"StoreR", "RequestPromise", "Publish"} = {}
        /\ pc \notin {"storeR", "requestPromise", "storePromise", "publish"}

\* C24 as amended: after a successful RevealR of the stored record's R and
\* the store of the record as revealed, the same round goes on with StoreR
\* (and from there with RequestPromise, the store of the new record and
\* Publish); the round ends after RevealR only when RevealR failed, and
\* after the store of the revealed record only when that store failed.
C24_RoundGoesOnAfterReveal ==
    /\ [][(pc = "storeRevealed" /\ pc' # pc) =>
             \/ pc' = "storeR" /\ promiseStorage'[1].revealed
             \/ /\ pc' = "handleReceive"
                /\ receiveErr' = "could not store accountant promise"]_vars
    /\ []((pc = "handleReceive" /\ LastCall = "RevealR") =>
             accountantFailureCount >= 1)
    /\ []((pc \in {"storeR", "requestPromise", "storePromise", "publish"}
               /\ "RevealR" \in Called) =>
             \E i \in DOMAIN calls :
                /\ calls[i] = "RevealR" /\ i < Len(calls)
                /\ calls[i + 1] = "PromiseStore")

\* C24, its case: a round revealed the R of the round before and went on
\* to publish its own promise
C24_Witness ==
    /\ pc = "handleReceive" /\ LastCall = "Publish"
    /\ "RevealR" \in Called /\ "StoreR" \in Called

\* C25: once an exchange message was accepted, the amount of every invoice
\* sent is the truncated product of the elapsed minutes and the price,
\* without the factor 0.8, whatever agreement total the message carried.
C25_NoLeniencyAfterAcceptedMessage ==
    (pc = "storeInvoice" /\ lastExchangeMessage.valid) =>
        lastInvoice.invoice.amount = (elapsed * PaymentPrice) \div Minute

\* the first of the five checks that em fails, 0 when it passes them all:
\* outer signature, promise signer, amount, hashlock, channel id
FirstFailingCheck(em) ==
    CASE ~em.valid -> 1
      [] em.signer # "peer" -> 2
      [] em.amount < lastExchangeMessage.amount -> 3
      [] em.hashlock # HashlockBytes(lastInvoice.invoice.hashlock) -> 4
      [] em.channelID # ChannelAddress -> 5
      [] OTHER -> 0

\* the errors of each check
ErrorsOfCheck(k) ==
    CASE k = 1 -> {"ErrExchangeValidationFailed"}
      [] k = 2 -> {"could not recover promise signature", "identity missmatch"}
      [] k = 3 -> {"ErrConsumerPromiseValidationFailed: invalid amount"}
      [] k = 4 -> {"ErrConsumerPromiseValidationFailed: missmatching hashlock"}
      [] k = 5 -> {"ErrConsumerPromiseValidationFailed: invalid channel address",
                   "could not generate channel address"}
      [] OTHER -> {}

\* C26: whenever a message is awaited, every message the consumer may send
\* is turned down with the error of the first check it fails, in the order
\* outer signature, promise signer, amount, hashlock, channel id, and is
\* accepted only when it fails none (and, the channel address being
\* computed, whenever it fails none).
C26_ValidatorChecksInOrder ==
    pc = "receive" =>
        \A em \in ExchangeMessages, addr \in {"ok", "err"} :
            LET k == FirstFailingCheck(em)
                err == validateExchangeMessage(em, addr)
            IN  /\ k # 0 => err \in ErrorsOfCheck(k)
                /\ err = "nil" => k = 0
                /\ (k = 0 /\ addr = "ok") => err = "nil"

\* C26, its case: a message with a lower amount and with the hashlock of
\* the invoice before is turned down for its amount
C26_Witness ==
    /\ pc = "receive"
    /\ \E em \in ExchangeMessages :
          /\ em.valid /\ em.signer = "peer"
          /\ em.amount < lastExchangeMessage.amount
          /\ em.hashlock # HashlockBytes(lastInvoice.invoice.hashlock)
          /\ em.channelID # ChannelAddress
          /\ validateExchangeMessage(em, "ok")
                 = "ErrConsumerPromiseValidationFailed: invalid amount"

\* the stored promise record is the new one of the round: R of the last
\* invoice in hex, not revealed, the last invoice's agreement id
NewRecordStored ==
    /\ Len(promiseStorage) = 1
    /\ promiseStorage[1].r = EncodeToString(lastInvoice.r)
    /\ promiseStorage[1].revealed = FALSE
    /\ promiseStorage[1].agreementID = lastInvoice.invoice.agreementID

\* C27: an event is published only by the step that follows the successful
\* store of the round's new promise record, which is then the stored one;
\* the events published are as many as the new records stored, but for the
\* one record whose event is the next step; a round publishes at most once,
\* as its last call, and a round that ended with another call (a failed
\* RevealR, StoreR, RequestPromise, recovery or store) published nothing.
C27_PublishedAfterRecordStored ==
    /\ [][published' # published =>
             /\ pc = "publish" /\ LastCall = "PromiseStore"
             /\ NewRecordStored
             /\ promisesStored = published + 1
             /\ published' = promisesStored]_vars
    /\ [](IF pc = "publish" THEN promisesStored = published + 1
                            ELSE promisesStored = published)
    /\ []("Publish" \in Called =>
             /\ pc \in {"handleReceive", "select", "sendInvoice", "Done"}
             /\ LastCall = "Publish" /\ CountCalls("Publish") = 1
             /\ receiveErr = "nil")
    /\ []((pc = "handleReceive" /\ receiveErr # "nil") =>
             /\ "Publish" \notin Called
             /\ promisesStored = published)

\* C27, its case: a round has stored its new record and published the event
C27_Witness ==
    /\ pc = "handleReceive" /\ LastCall = "Publish"
    /\ published = 1 /\ promisesStored = 1 /\ NewRecordStored

\* C28: no invoice has been sent while the second of the first timer has
\* not passed, whatever the charge period.
C28_NoInvoiceBeforeFirstSecond ==
    sent > 0 => secondPassed

\* the consumer's valid replies to the invoice sent before the last one:
\* signed, the promise signed by the peer, an amount not below the last
\* accepted one, the right channel, and the hashlock of that invoice
LateReplies ==
    {em \in ExchangeMessages :
        /\ em.valid /\ em.signer = "peer"
        /\ em.amount >= lastExchangeMessage.amount
        /\ em.channelID = ChannelAddress
        /\ em.hashlock = HashlockBytes(prevHashlock)
        /\ em.hashlock # HashlockBytes(lastInvoice.invoice.hashlock)}

\* C29: Start does not return the error of a mismatching hashlock for the
\* consumer's valid reply to an invoice whose wait timed out, received in
\* the round of the next invoice.
C29_LateReplyDoesNotEndSession ==
    ~ /\ pc = "Done" /\ sent >= 2 /\ timeoutsInARow >= 1
      /\ LastCall = "validate"
      /\ result = "ErrConsumerPromiseValidationFailed: missmatching hashlock"
      /\ \E em \in LateReplies : validateExchangeMessage(em, "ok") = result

\* the receive ended with a failure that is absorbed: a timeout below the
\* maximum, or a counted failure of the accountant at or below its maximum
AbsorbedFailure ==
    /\ pc = "handleReceive"
    /\ \/ /\ receiveErr = "ErrExchangeWaitTimeout"
          /\ notReceivedExchangeMessageCount + 1
                 < maxNotReceivedExchangeMessages
       \/ /\ receiveErr = "nil"
          /\ LastCall \in {"RevealR", "RequestPromise", "RecoveryRevealR"}

\* C30: Start has returned nil only with the stop channel closed by a call
\* of Stop; nil is returned by the select's stop case alone, so that a
\* session whose Stop is never called runs on or returns an error; and the
\* step that handles an absorbed failure goes back to the select with
\* Start still running.
C30_NilOnlyAfterStop ==
    /\ [](result = "nil" => (pc = "Done" /\ stop /\ stopCalls >= 1))
    /\ [](stopCalls = 0 =>
             (~stop /\ (result = "running" \/ (pc = "Done" /\ result # "nil"))))
    /\ [][(result' = "nil" /\ result # "nil") =>
             (pc = "select" /\ stop /\ pc' = "Done")]_vars
    /\ [][(AbsorbedFailure /\ pc' # pc) =>
             (pc' = "select" /\ result' = "running")]_vars

\* C30, its case: a timeout was absorbed, the loop went on, and Start
\* returned nil after Stop
C30_Witness ==
    /\ pc = "Done" /\ result = "nil" /\ stopCalls >= 1
    /\ notReceivedExchangeMessageCount >= 1 /\ LastCall = "timeout"

====
